---- MODULE Spec2Model ----
(***************************************************************************)
(* PascalVOC dataset adapter (maskrcnn_benchmark/data/datasets/voc.py).    *)
(*                                                                         *)
(* The dataset object is built once by __init__ from a split manifest and  *)
(* one XML annotation file per identifier, and is then read through        *)
(* __getitem__ and get_img_info.  The XML files are modelled as element    *)
(* trees (what lxml hands to _recursive_parse_xml_to_dict), Python values  *)
(* as tagged records, and strings of the manifest as sequences of code     *)
(* points so that strip() and sorted() are computed, not assumed.          *)
(*                                                                         *)
(* Throughout, self.transforms is None, every annotation file that exists  *)
(* is well-formed XML (etree.fromstring returns), and every image file     *)
(* exists; BoxList (maskrcnn_benchmark.structures.bounding_box) is not     *)
(* part of this file and its clip_to_image is modelled from its contract.  *)
(***************************************************************************)
EXTENDS Integers, Sequences, FiniteSets, TLC

VARIABLES
    manifest,   \* lines of ImageSets/Main/<split>.txt, as readlines() gives them
    files,      \* Annotations/<id>.xml for every identifier: present or not, and its tree
    images,     \* JPEGImages/<id>.jpg for every identifier: the decoded image's (width, height)
    pc,         \* "new" | "ready" | "failed" (dataset), "xml" | "parsed" (parser alone)
    ids,        \* self.ids
    json_category_id_to_contiguous_id,
    contiguous_category_id_to_json_id,
    anns,       \* self.anns
    id_to_img_map,
    result,     \* per caller: what its last __getitem__ / get_img_info call returned
    xml,        \* the element given to _recursive_parse_xml_to_dict (parser alone)
    parsed      \* what it returned (parser alone)

vars == <<manifest, files, images, pc, ids, json_category_id_to_contiguous_id,
          contiguous_category_id_to_json_id, anns, id_to_img_map, result, xml, parsed>>

dataset == <<ids, json_category_id_to_contiguous_id, contiguous_category_id_to_json_id,
             anns, id_to_img_map>>

-----------------------------------------------------------------------------
(* Bounds of the model.                                                    *)

\* lines in the split manifest
MaxLines == 3
\* `object` elements in one annotation file
MaxObjs == 2
\* children of an inner element of the parser's input trees
MaxKids == 2

\* callers of the accessors (data-loading workers sharing the dataset)
Callers == {"w1", "w2"}

-----------------------------------------------------------------------------
(* Python values: None, str, dict (a function on its keys), list.          *)

PyNone == [k |-> "None", v |-> <<>>]
PyStr(s) == [k |-> "str", v |-> s]
PyDict(f) == [k |-> "dict", v |-> f]
PyList(q) == [k |-> "list", v |-> q]

\* the empty dict {}
EmptyDict == [key \in {} |-> PyNone]

\* d[key] = value on a dict's function
SetItem(d, key, value) ==
    [x \in (DOMAIN d) \cup {key} |-> IF x = key THEN value ELSE d[x]]

\* value[key] does not raise: value is a dict holding key
HasKey(value, key) == value.k = "dict" /\ key \in DOMAIN value.v

SeqsUpTo(S, lo, hi) == UNION {[1..n -> S] : n \in lo..hi}

-----------------------------------------------------------------------------
(* lxml elements: a tag, the text (None for an element without text) and   *)
(* the child elements in document order.                                   *)

Leaf(tag, text) == [tag |-> tag, text |-> text, children |-> <<>>]
Node(tag, children) == [tag |-> tag, text |-> PyNone, children |-> children]

(* _recursive_parse_xml_to_dict, lines 94-114.  FoldChildren is the loop   *)
(* of lines 106-113 from child n on, with `result` as built so far.        *)
RECURSIVE _recursive_parse_xml_to_dict(_)
RECURSIVE FoldChildren(_, _, _)

\* a faulty AddChild: an `object` child overwrites like any other tag
AddChild_overwrite(res, tag, value) == SetItem(res, tag, value)

\* lines 108-113: one child's value enters the result
AddChild(res, tag, value) ==
    IF tag # "object"
    THEN SetItem(res, tag, value)
    ELSE LET had == IF tag \in DOMAIN res THEN res[tag].v ELSE <<>>
         IN  SetItem(res, tag, PyList(Append(had, value)))

FoldChildren(children, n, res) ==
    IF n > Len(children)
    THEN res
    ELSE LET child == children[n]
             child_result == _recursive_parse_xml_to_dict(child)
         IN  FoldChildren(children, n + 1, AddChild(res, child.tag, child_result[child.tag]))

_recursive_parse_xml_to_dict(e) ==
    IF Len(e.children) = 0
    THEN (e.tag :> e.text)
    ELSE (e.tag :> PyDict(FoldChildren(e.children, 1, EmptyDict)))

-----------------------------------------------------------------------------
(* The parser alone: any element of a bounded family of trees.             *)

ParserTexts == {PyNone, PyStr("u")}
ParserLeaves == {Leaf(t, x) : t \in {"name", "object"}, x \in ParserTexts}
ParserLevel1 ==
    ParserLeaves \cup
    {Node(t, c) : t \in {"size", "object"}, c \in SeqsUpTo(ParserLeaves, 1, MaxKids)}
ParserTrees ==
    ParserLevel1 \cup
    {Node("annotation", c) : c \in SeqsUpTo(ParserLevel1, 1, 2)}

NoElement == Leaf("", PyNone)

InitParser ==
    /\ xml \in ParserTrees
    /\ parsed = PyNone
    /\ pc = "xml"
    /\ manifest = <<>> /\ files = <<>> /\ images = <<>>
    /\ ids = <<>> /\ anns = <<>> /\ id_to_img_map = <<>>
    /\ json_category_id_to_contiguous_id = <<>>
    /\ contiguous_category_id_to_json_id = <<>>
    /\ result = [w \in Callers |-> PyNone]

ParseXml ==
    /\ pc = "xml"
    /\ parsed' = PyDict(_recursive_parse_xml_to_dict(xml))
    /\ pc' = "parsed"
    /\ UNCHANGED <<manifest, files, images, dataset, result, xml>>

NextParser == ParseXml

SpecParser == InitParser /\ [][NextParser]_vars

-----------------------------------------------------------------------------
(* Python str as a sequence of code points: str.strip(), the ordering of   *)
(* str that sorted() uses, and sorted() itself.                            *)

\* the ASCII characters str.strip() removes: \t \n \v \f \r and the space
Whitespace == {9, 10, 11, 12, 13, 32}

RECURSIVE lstrip(_)
lstrip(s) == IF s # <<>> /\ Head(s) \in Whitespace THEN lstrip(Tail(s)) ELSE s

RECURSIVE rstrip(_)
rstrip(s) ==
    IF s # <<>> /\ s[Len(s)] \in Whitespace THEN rstrip(SubSeq(s, 1, Len(s) - 1)) ELSE s

strip(s) == rstrip(lstrip(s))

\* a < b for two str: the first differing code point decides, a proper prefix is smaller
RECURSIVE StrLess(_, _)
StrLess(a, b) ==
    IF b = <<>> THEN FALSE
    ELSE IF a = <<>> THEN TRUE
    ELSE IF Head(a) # Head(b) THEN Head(a) < Head(b)
    ELSE StrLess(Tail(a), Tail(b))

\* x placed into the sorted list q, after the entries that are not greater (stable)
RECURSIVE Insert(_, _)
Insert(q, x) ==
    IF q = <<>> THEN <<x>>
    ELSE IF StrLess(x, Head(q)) THEN <<x>> \o q
    ELSE <<Head(q)>> \o Insert(Tail(q), x)

RECURSIVE sorted(_)
sorted(q) == IF q = <<>> THEN <<>> ELSE Insert(sorted(SubSeq(q, 1, Len(q) - 1)), q[Len(q)])

\* a faulty ReadIds: the stripped lines in file order, not sorted
ReadIds_unsorted(lines) == [n \in 1..Len(lines) |-> strip(lines[n])]

\* line 41: sorted([l.strip() for l in fid.readlines()])
ReadIds(lines) == sorted([n \in 1..Len(lines) |-> strip(lines[n])])

-----------------------------------------------------------------------------
(* int() of an element's text.  The text of a decimal literal is built     *)
(* digit by digit; int() accepts a str that is the literal of an integer   *)
(* of IntDomain and raises on None, on a dict and on any other str.        *)

Digit == <<"0", "1", "2", "3", "4", "5", "6", "7", "8", "9">>

RECURSIVE DecimalText(_)
DecimalText(n) ==
    IF n < 10 THEN Digit[n + 1] ELSE DecimalText(n \div 10) \o Digit[(n % 10) + 1]

Literal(n) == IF n < 0 THEN "-" \o DecimalText(-n) ELSE DecimalText(n)

IntDomain == -2..12

\* int(value) returns
IntOk(value) == value.k = "str" /\ \E n \in IntDomain : Literal(n) = value.v
\* and what it returns
IntOf(value) == CHOOSE n \in IntDomain : Literal(n) = value.v

-----------------------------------------------------------------------------
(* The label vocabulary, lines 10-29, and the two id mappings.             *)

VOC_BBOX_LABEL_NAMES ==
    <<"aeroplane", "bicycle", "bird", "boat", "bottle", "bus", "car", "cat", "chair",
      "cow", "diningtable", "dog", "horse", "motorbike", "person", "pottedplant",
      "sheep", "sofa", "train", "tvmonitor">>

\* range(20), line 44
NumCategories == 20

\* VOC_BBOX_LABEL_NAMES.index(value) returns: value is a str of the tuple
IndexOk(value) ==
    value.k = "str" /\ \E n \in 1..Len(VOC_BBOX_LABEL_NAMES) : VOC_BBOX_LABEL_NAMES[n] = value.v
\* the 0-based position of its first occurrence
IndexOf(value) ==
    (CHOOSE n \in 1..Len(VOC_BBOX_LABEL_NAMES) :
        /\ VOC_BBOX_LABEL_NAMES[n] = value.v
        /\ \A m \in 1..(n - 1) : VOC_BBOX_LABEL_NAMES[m] # value.v) - 1

\* a faulty MakeJsonToContiguous: contiguous ids start at 0
MakeJsonToContiguous_from_zero == [v \in 0..(NumCategories - 1) |-> v]

\* lines 43-45: {v: i + 1 for i, v in enumerate(range(20))}
MakeJsonToContiguous == [v \in 0..(NumCategories - 1) |-> v + 1]

\* lines 46-48: {v: k for k, v in mapping.items()}; a later item overwrites an earlier one
InvertMapping(mapping) ==
    [c \in {mapping[r] : r \in DOMAIN mapping} |->
        CHOOSE r \in DOMAIN mapping :
            mapping[r] = c /\ \A q \in DOMAIN mapping : mapping[q] = c => q <= r]

-----------------------------------------------------------------------------
(* The annotation record of one file, lines 51-62.                         *)

Coordinates == <<"xmin", "ymin", "xmax", "ymax">>

\* int(obj['difficult']) returns
DifficultOk(obj) == HasKey(obj, "difficult") /\ IntOk(obj.v["difficult"])
\* the filter of lines 59 and 60
NotDifficult(obj) == IntOf(obj.v["difficult"]) = 0

\* lines 56-59: the four int(obj['bndbox'][...]) return
BoxOk(obj) ==
    /\ HasKey(obj, "bndbox")
    /\ \A n \in 1..4 :
        /\ HasKey(obj.v["bndbox"], Coordinates[n])
        /\ IntOk(obj.v["bndbox"].v[Coordinates[n]])
BoxOf(obj) == [n \in 1..4 |-> IntOf(obj.v["bndbox"].v[Coordinates[n]])]

\* line 60: VOC_BBOX_LABEL_NAMES.index(obj['name']) returns
LabelOk(obj) == HasKey(obj, "name") /\ IndexOk(obj.v["name"])
LabelOf(obj) == IndexOf(obj.v["name"])

\* the entries of a list a comprehension's filter keeps, in order
RECURSIVE Filtered(_, _)
Filtered(objs, n) ==
    IF n > Len(objs) THEN <<>>
    ELSE IF NotDifficult(objs[n]) THEN <<objs[n]>> \o Filtered(objs, n + 1)
    ELSE Filtered(objs, n + 1)

\* lines 54-62 raise: a missing key, a subscript of None or of a str, a failing
\* int() or index().  The filter is evaluated before the element expression, so
\* an entry the filter drops is not looked at any further.
RecordRaises(root) ==
    \/ "annotation" \notin DOMAIN root
    \/ ~HasKey(root["annotation"], "object")
    \/ LET objs == root["annotation"].v["object"].v
       IN  \/ \E n \in 1..Len(objs) : ~DifficultOk(objs[n])
           \/ \E n \in 1..Len(objs) : NotDifficult(objs[n]) /\ ~BoxOk(objs[n])
           \/ \E n \in 1..Len(objs) : NotDifficult(objs[n]) /\ ~LabelOk(objs[n])
    \/ ~HasKey(root["annotation"], "size")

\* a faulty RecordOf: the labels comprehension has lost its filter
RecordOf_labels_unfiltered(data) ==
    LET objs == data.v["object"].v
        kept == Filtered(objs, 1)
    IN  [boxes  |-> [n \in 1..Len(kept) |-> BoxOf(kept[n])],
         labels |-> [n \in 1..Len(objs) |-> IF LabelOk(objs[n]) THEN LabelOf(objs[n]) ELSE 0],
         size   |-> data.v["size"]]

\* lines 55-62, when nothing raises
RecordOf(data) ==
    LET kept == Filtered(data.v["object"].v, 1)
    IN  [boxes  |-> [n \in 1..Len(kept) |-> BoxOf(kept[n])],
         labels |-> [n \in 1..Len(kept) |-> LabelOf(kept[n])],
         size   |-> data.v["size"]]

\* lines 51-62 for one identifier raise: the file is missing, or the record cannot be derived
FileRaises(file) == ~file.exists \/ RecordRaises(_recursive_parse_xml_to_dict(file.xml))
FileRecord(file) == RecordOf(_recursive_parse_xml_to_dict(file.xml)["annotation"])

\* the identifiers of a list
Range(q) == {q[n] : n \in 1..Len(q)}

\* a faulty BuildAnns: the loop misses the first identifier
BuildAnns_skip_first(idlist, fs) ==
    [img_id \in Range(IF idlist = <<>> THEN <<>> ELSE Tail(idlist)) |-> FileRecord(fs[img_id])]

\* lines 49-62, when no file raises: one record per identifier of the list; a
\* repeated identifier is parsed again and overwrites its own record
BuildAnns(idlist, fs) == [img_id \in Range(idlist) |-> FileRecord(fs[img_id])]

-----------------------------------------------------------------------------
(* The target of __getitem__, lines 74-83.                                 *)

\* the last pixel index along a side of n pixels
LastPixel(n) == n - 1

Clamp(x, lo, hi) == IF x < lo THEN lo ELSE IF x > hi THEN hi ELSE x

\* one box clipped to an image of the given (width, height)
ClipBox(box, size) ==
    <<Clamp(box[1], 0, LastPixel(size[1])), Clamp(box[2], 0, LastPixel(size[2])),
      Clamp(box[3], 0, LastPixel(size[1])), Clamp(box[4], 0, LastPixel(size[2]))>>

\* a box that still covers something: xmax > xmin and ymax > ymin
NonEmpty(box) == box[3] > box[1] /\ box[4] > box[2]

\* the rows (of boxes or of the labels field) whose clipped box is kept
RECURSIVE KeptRows(_, _, _, _)
KeptRows(rows, bbox, size, n) ==
    IF n > Len(bbox) THEN <<>>
    ELSE IF NonEmpty(ClipBox(bbox[n], size))
         THEN <<rows[n]>> \o KeptRows(rows, bbox, size, n + 1)
         ELSE KeptRows(rows, bbox, size, n + 1)

\* BoxList.clip_to_image(remove_empty=True): every box clipped to the image, the
\* empty ones dropped together with their entry of the labels field
clip_to_image(bbox, labels, size) ==
    [bbox   |-> KeptRows([n \in 1..Len(bbox) |-> ClipBox(bbox[n], size)], bbox, size, 1),
     labels |-> KeptRows(labels, bbox, size, 1)]

\* a faulty ContiguousClasses: the raw class indices go out unmapped
ContiguousClasses_unmapped(labels, mapping) == labels

\* line 79: [self.json_category_id_to_contiguous_id[c] for c in labels]
ContiguousClasses(labels, mapping) == [n \in 1..Len(labels) |-> mapping[labels[n]]]

\* a faulty AnnsAfterGet: the clipping acts on the stored list itself
AnnsAfterGet_in_place(store, img_id, size) ==
    [store EXCEPT ![img_id].boxes =
        [n \in 1..Len(store[img_id].boxes) |-> ClipBox(store[img_id].boxes[n], size)]]

\* lines 74-83 on self.anns: torch.as_tensor copies the list of lists into a new
\* tensor, and the clipping acts on that tensor
AnnsAfterGet(store, img_id, size) == store

-----------------------------------------------------------------------------
(* What the accessors return.                                              *)

NoResult ==
    [op |-> "none", index |-> 0, img_id |-> <<>>, img_size |-> <<>>, mode |-> "",
     bbox |-> <<>>, labels |-> <<>>, info |-> PyNone]

\* lines 70-87 with self.transforms None: (img, target, index)
GetItemResult(index) ==
    LET img_id == ids[index + 1]
        size == images[img_id]
        ann == anns[img_id]
        classes == ContiguousClasses(ann.labels, json_category_id_to_contiguous_id)
        target == clip_to_image(ann.boxes, classes, size)
    IN  [op |-> "__getitem__", index |-> index, img_id |-> img_id, img_size |-> size,
         mode |-> "xyxy", bbox |-> target.bbox, labels |-> target.labels, info |-> PyNone]

\* a faulty GetImgInfoResult: the index is taken one too far
GetImgInfoResult_off_by_one(index) ==
    LET img_id == ids[((index + 1) % Len(ids)) + 1]
    IN  [NoResult EXCEPT !.op = "get_img_info", !.index = index, !.img_id = img_id,
                         !.info = anns[img_id].size]

\* lines 89-92
GetImgInfoResult(index) ==
    LET img_id == ids[index + 1]
    IN  [NoResult EXCEPT !.op = "get_img_info", !.index = index, !.img_id = img_id,
                         !.info = anns[img_id].size]

\* self.anns[img_id] raises KeyError
KeyErrorResult(index) == [NoResult EXCEPT !.op = "KeyError", !.index = index]

-----------------------------------------------------------------------------
(* The operations.                                                         *)

\* __init__, lines 33-65.  An exception leaves no dataset object.
__init__ ==
    /\ pc = "new"
    /\ LET idlist == ReadIds(manifest)
       IN  IF \E n \in 1..Len(idlist) : FileRaises(files[idlist[n]])
           THEN /\ pc' = "failed"
                /\ UNCHANGED dataset
           ELSE /\ pc' = "ready"
                /\ ids' = idlist
                /\ json_category_id_to_contiguous_id' = MakeJsonToContiguous
                /\ contiguous_category_id_to_json_id' = InvertMapping(MakeJsonToContiguous)
                /\ anns' = BuildAnns(idlist, files)
                /\ id_to_img_map' = [n \in 0..(Len(idlist) - 1) |-> idlist[n + 1]]
    /\ UNCHANGED <<manifest, files, images, result, xml, parsed>>

\* __len__, lines 67-68
__len__ == Len(ids)

\* __getitem__(index) called by w, lines 70-87
__getitem__(w, index) ==
    /\ pc = "ready"
    /\ index \in 0..(__len__ - 1)
    /\ IF ids[index + 1] \in DOMAIN anns
       THEN /\ result' = [result EXCEPT ![w] = GetItemResult(index)]
            /\ anns' = AnnsAfterGet(anns, ids[index + 1], images[ids[index + 1]])
       ELSE /\ result' = [result EXCEPT ![w] = KeyErrorResult(index)]
            /\ anns' = anns
    /\ UNCHANGED <<manifest, files, images, pc, ids, json_category_id_to_contiguous_id,
                   contiguous_category_id_to_json_id, id_to_img_map, xml, parsed>>

\* get_img_info(index) called by w, lines 89-92
get_img_info(w, index) ==
    /\ pc = "ready"
    /\ index \in 0..(__len__ - 1)
    /\ IF ids[index + 1] \in DOMAIN anns
       THEN result' = [result EXCEPT ![w] = GetImgInfoResult(index)]
       ELSE result' = [result EXCEPT ![w] = KeyErrorResult(index)]
    /\ UNCHANGED <<manifest, files, images, pc, dataset, xml, parsed>>

Next ==
    \/ __init__
    \/ \E w \in Callers, index \in 0..(MaxLines - 1) : __getitem__(w, index)
    \/ \E w \in Callers, index \in 0..(MaxLines - 1) : get_img_info(w, index)

-----------------------------------------------------------------------------
(* The files the dataset is built from.                                    *)

Text(s) == PyStr(s)

SizeElement(width, height) ==
    Node("size", <<Leaf("width", Text(Literal(width))), Leaf("height", Text(Literal(height))),
                   Leaf("depth", Text("3"))>>)

BndboxElement(texts) ==
    Node("bndbox", [n \in 1..4 |-> Leaf(Coordinates[n], Text(texts[n]))])

ObjectElement(name, difficult, texts) ==
    Node("object", <<Leaf("name", Text(name)), Leaf("difficult", Text(difficult)),
                     BndboxElement(texts)>>)

\* an element without its children of the given tag
Without(e, tag) ==
    [e EXCEPT !.children = SelectSeq(e.children, LAMBDA c : c.tag # tag)]

AnnotationElement(parts, objs) ==
    Node("annotation", <<Leaf("filename", Text("x.jpg"))>> \o parts \o objs)

FileOf(e) == [exists |-> TRUE, xml |-> e]
MissingFile == [exists |-> FALSE, xml |-> NoElement]

\* boxes: inside a 5x5 image, reaching over its border, outside it, of no width
BoxInside == <<"1", "1", "3", "3">>
BoxOver == <<"2", "0", "7", "4">>
BoxOutside == <<"6", "6", "8", "8">>
BoxFlat == <<"2", "1", "2", "3">>

WellFormedObjects ==
    {ObjectElement("car", "0", BoxInside), ObjectElement("aeroplane", "0", BoxOver),
     ObjectElement("tvmonitor", "0", BoxOutside), ObjectElement("car", "0", BoxFlat),
     ObjectElement("person", "1", BoxInside)}

MalformedObjects ==
    {ObjectElement("unicorn", "0", BoxInside), ObjectElement("unicorn", "1", BoxInside),
     Without(ObjectElement("car", "0", BoxInside), "name"),
     Without(ObjectElement("car", "1", BoxInside), "name"),
     Without(ObjectElement("car", "0", BoxInside), "bndbox"),
     Without(ObjectElement("car", "1", BoxInside), "bndbox"),
     Without(ObjectElement("car", "0", BoxInside), "difficult"),
     ObjectElement("car", "0", <<"1", "1", "x", "3">>)}

SampleObjects == WellFormedObjects \cup MalformedObjects

ImageSizes == {<<5, 5>>, <<3, 4>>}

\* the annotation files of the one-sample dataset
SampleFiles ==
    {FileOf(AnnotationElement(parts, objs)) :
        parts \in {<<>>, <<SizeElement(5, 5)>>}, objs \in SeqsUpTo(SampleObjects, 0, MaxObjs)}
    \cup {MissingFile, FileOf(SizeElement(5, 5))}

\* the manifest lines "1\n", " 1\n", "2\n", "12\n" and an unterminated last line "12"
TerminatedLines == {<<49, 10>>, <<32, 49, 10>>, <<50, 10>>, <<49, 50, 10>>}
LastLines == TerminatedLines \cup {<<49, 50>>}

\* what readlines() can return: only the last line may lack its newline
Manifests ==
    {<<>>} \cup
    {Append(q, l) : q \in SeqsUpTo(TerminatedLines, 0, MaxLines - 1), l \in LastLines}

\* the annotation file of each identifier of the several-sample dataset
DatasetAnnotation(img_id) ==
    IF img_id = <<49>>
    THEN AnnotationElement(<<SizeElement(5, 5)>>,
            <<ObjectElement("car", "0", BoxInside), ObjectElement("aeroplane", "0", BoxOver)>>)
    ELSE IF img_id = <<50>>
    THEN AnnotationElement(<<SizeElement(4, 3)>>,
            <<ObjectElement("tvmonitor", "0", BoxOutside), ObjectElement("bus", "0", BoxInside)>>)
    ELSE AnnotationElement(<<SizeElement(3, 4)>>,
            <<ObjectElement("person", "1", BoxInside), ObjectElement("dog", "0", BoxFlat)>>)

\* the identifiers a manifest names
IdsOf(lines) == {strip(lines[n]) : n \in 1..Len(lines)}

InitObject ==
    /\ pc = "new"
    /\ ids = <<>> /\ anns = <<>> /\ id_to_img_map = <<>>
    /\ json_category_id_to_contiguous_id = <<>>
    /\ contiguous_category_id_to_json_id = <<>>
    /\ result = [w \in Callers |-> NoResult]
    /\ xml = NoElement /\ parsed = PyNone

\* a split of up to MaxLines lines over the identifiers "1", "12" and "2"
Init ==
    /\ manifest \in Manifests
    /\ files \in {f \in [IdsOf(manifest) -> {MissingFile} \cup {FileOf(DatasetAnnotation(i)) : i \in IdsOf(manifest)}] :
                    \A i \in IdsOf(manifest) : f[i].exists => f[i].xml = DatasetAnnotation(i)}
    /\ images = [i \in IdsOf(manifest) |-> <<5, 5>>]
    /\ InitObject

Spec == Init /\ [][Next]_vars

\* a split of one sample, with any annotation file of SampleFiles and either image size
InitSample ==
    /\ manifest = <<(<<49, 10>>)>>
    /\ files \in [{<<49>>} -> SampleFiles]
    /\ images \in [{<<49>>} -> ImageSizes]
    /\ InitObject

SpecSample == InitSample /\ [][Next]_vars

-----------------------------------------------------------------------------
(* Reading the source files directly, for the statements below: these look *)
(* at the element tree of a file, not at what the parser made of it.       *)

ChildrenTagged(e, tag) == SelectSeq(e.children, LAMBDA c : c.tag = tag)
HasChild(e, tag) == ChildrenTagged(e, tag) # <<>>
LastChild(e, tag) == ChildrenTagged(e, tag)[Len(ChildrenTagged(e, tag))]

\* the `object` entries of an annotation file, in document order
SourceObjects(file) == ChildrenTagged(file.xml, "object")

\* an entry whose difficult flag reads 0
SourceNotDifficult(o) == HasChild(o, "difficult") /\ LastChild(o, "difficult").text = Text("0")

\* an entry with a name outside the vocabulary, or without bndbox, difficult or name
SourceMalformed(o) ==
    \/ ~HasChild(o, "bndbox") \/ ~HasChild(o, "difficult") \/ ~HasChild(o, "name")
    \/ \A n \in 1..Len(VOC_BBOX_LABEL_NAMES) : LastChild(o, "name").text # Text(VOC_BBOX_LABEL_NAMES[n])

\* a file that follows the schema: an annotation with a size and well-formed entries
SourceFollowsSchema(file) ==
    /\ file.exists /\ file.xml.tag = "annotation" /\ HasChild(file.xml, "size")
    /\ \A n \in 1..Len(SourceObjects(file)) : SourceObjects(file)[n] \in WellFormedObjects

\* the identifier of manifest line n
LineId(n) == strip(manifest[n])

\* the results callers hold from __getitem__
GotItem(w) == result[w].op = "__getitem__"
GotInfo(w) == result[w].op = "get_img_info"

-----------------------------------------------------------------------------
(* C1: a sample with zero non-difficult objects -- no `object` entry at    *)
(* all, or only entries with difficult=1 -- is constructed without error   *)
(* and __getitem__ returns a target with zero boxes and zero labels.       *)
C1_EmptySampleLoads ==
    (pc # "new" /\ \A n \in 1..Len(manifest) : SourceFollowsSchema(files[LineId(n)]))
    => \A n \in 1..Len(manifest) :
          (\A k \in 1..Len(SourceObjects(files[LineId(n)])) :
              ~SourceNotDifficult(SourceObjects(files[LineId(n)])[k]))
          => /\ pc = "ready"
             /\ \A w \in Callers :
                    (GotItem(w) /\ result[w].img_id = LineId(n))
                    => result[w].bbox = <<>> /\ result[w].labels = <<>>

(* C2: in every record built at construction, boxes and labels have the    *)
(* same length, the number of source objects with difficult = 0, and the   *)
(* k-th box and k-th label come from the k-th non-difficult object in      *)
(* document order.                                                         *)
C2_RecordFromNonDifficult ==
    pc = "ready" =>
        \A n \in 1..Len(ids) :
            LET rec == anns[ids[n]]
                src == SelectSeq(SourceObjects(files[ids[n]]), SourceNotDifficult)
            IN  /\ Len(rec.boxes) = Len(src)
                /\ Len(rec.labels) = Len(src)
                /\ \A k \in 1..Len(src) :
                    /\ Len(rec.boxes[k]) = 4
                    /\ \A c \in 1..4 :
                        Text(Literal(rec.boxes[k][c])) =
                            LastChild(LastChild(src[k], "bndbox"), Coordinates[c]).text
                    /\ rec.labels[k] \in 0..19
                    /\ Text(VOC_BBOX_LABEL_NAMES[rec.labels[k] + 1]) = LastChild(src[k], "name").text

\* a difficult entry ahead of a non-difficult one, and only the latter in the record
C2_Witness ==
    /\ pc = "ready" /\ Len(ids) = 1
    /\ Len(SourceObjects(files[ids[1]])) = 2
    /\ ~SourceNotDifficult(SourceObjects(files[ids[1]])[1])
    /\ SourceNotDifficult(SourceObjects(files[ids[1]])[2])
    /\ Len(anns[ids[1]].boxes) = 1 /\ anns[ids[1]].labels = <<0>>

(* C3: construction fails whenever an `object` entry of any annotation     *)
(* file has a class name outside the vocabulary or lacks bndbox, difficult *)
(* or name, or the annotation lacks size; entries marked difficult         *)
(* included.                                                               *)
C3_MalformedEntryIsFatal ==
    (pc # "new" /\ \E n \in 1..Len(manifest) :
        LET file == files[LineId(n)]
        IN  file.exists /\ file.xml.tag = "annotation"
            /\ \/ ~HasChild(file.xml, "size")
               \/ \E k \in 1..Len(SourceObjects(file)) : SourceMalformed(SourceObjects(file)[k]))
    => pc = "failed"

-----------------------------------------------------------------------------
(* C4.  The clipped box of a record box, and the record boxes that stay    *)
(* non-empty, written out with the image's width and height.               *)

Min(a, b) == IF a < b THEN a ELSE b
Max(a, b) == IF a > b THEN a ELSE b
Within(box, size) ==
    /\ box[1] \in 0..(size[1] - 1) /\ box[3] \in 0..(size[1] - 1)
    /\ box[2] \in 0..(size[2] - 1) /\ box[4] \in 0..(size[2] - 1)
Clipped(box, size) ==
    <<Max(0, Min(box[1], size[1] - 1)), Max(0, Min(box[2], size[2] - 1)),
      Max(0, Min(box[3], size[1] - 1)), Max(0, Min(box[4], size[2] - 1))>>
StaysNonEmpty(box, size) ==
    Clipped(box, size)[1] < Clipped(box, size)[3] /\ Clipped(box, size)[2] < Clipped(box, size)[4]

\* r is the target of the record rec: the boxes that stay non-empty, clipped,
\* in their order, each with the contiguous id of its own object
TargetOfRecord(r, rec) ==
    /\ r.index \in 0..(Len(ids) - 1) /\ r.img_id = ids[r.index + 1]
    /\ r.mode = "xyxy"
    /\ Len(r.labels) = Len(r.bbox)
    /\ \A j \in 1..Len(r.bbox) : Within(r.bbox[j], r.img_size) /\ r.labels[j] \in 1..20
    /\ \E f \in [1..Len(r.bbox) -> 1..Len(rec.boxes)] :
        /\ \A i, j \in 1..Len(r.bbox) : i < j => f[i] < f[j]
        /\ {f[j] : j \in 1..Len(r.bbox)} =
              {k \in 1..Len(rec.boxes) : StaysNonEmpty(rec.boxes[k], r.img_size)}
        /\ \A j \in 1..Len(r.bbox) :
            /\ r.bbox[j] = Clipped(rec.boxes[f[j]], r.img_size)
            /\ r.labels[j] = rec.labels[f[j]] + 1

(* C4 as stated: with no transform, __getitem__(i) returns the record's    *)
(* boxes that remain non-empty after clipping, in order and within the     *)
(* image, with labels raw index + 1 (1..20), and the index i; a record     *)
(* whose boxes all lie inside the image is returned with all its boxes     *)
(* unchanged.                                                              *)
C4_InsideBoxesAllReturned ==
    \A w \in Callers :
        GotItem(w) =>
            LET r == result[w]
                rec == anns[r.img_id]
            IN  /\ TargetOfRecord(r, rec)
                /\ (\A k \in 1..Len(rec.boxes) : Within(rec.boxes[k], r.img_size))
                   => r.bbox = rec.boxes

(* C4 amended: as above, but a record is returned with all its boxes       *)
(* unchanged when its boxes all lie inside the image (coordinates in       *)
(* 0..width-1, 0..height-1) and each has xmin < xmax and ymin < ymax; a    *)
(* box of no width or height is dropped even inside the image.             *)
C4_ClippedNonEmptyBoxes ==
    \A w \in Callers :
        GotItem(w) =>
            LET r == result[w]
                rec == anns[r.img_id]
            IN  /\ TargetOfRecord(r, rec)
                /\ (\A k \in 1..Len(rec.boxes) :
                        /\ Within(rec.boxes[k], r.img_size)
                        /\ rec.boxes[k][1] < rec.boxes[k][3]
                        /\ rec.boxes[k][2] < rec.boxes[k][4])
                   => (r.bbox = rec.boxes
                       /\ r.labels = [k \in 1..Len(rec.labels) |-> rec.labels[k] + 1])

\* a record of two boxes, one clipped at the border and kept, one dropped
C4_Witness ==
    \E w \in Callers :
        /\ GotItem(w)
        /\ Len(anns[result[w].img_id].boxes) = 2
        /\ Len(result[w].bbox) = 1
        /\ result[w].bbox[1] # anns[result[w].img_id].boxes[1]
        /\ result[w].bbox[1] # anns[result[w].img_id].boxes[2]
        /\ result[w].labels = <<1>>

-----------------------------------------------------------------------------
(* C5: the two id mappings are inverse bijections between the raw indices  *)
(* 0..19 and the contiguous ids 1..20; 0 is never a contiguous id.         *)
C5_MappingsInverse ==
    pc = "ready" =>
        /\ DOMAIN json_category_id_to_contiguous_id = 0..19
        /\ DOMAIN contiguous_category_id_to_json_id = 1..20
        /\ \A r \in 0..19 :
            /\ json_category_id_to_contiguous_id[r] = r + 1
            /\ contiguous_category_id_to_json_id[r + 1] = r
        /\ \A r \in 0..19 :
            Cardinality({c \in 1..20 : contiguous_category_id_to_json_id[c] = r}) = 1
        /\ 0 \notin DOMAIN contiguous_category_id_to_json_id

\* a dataset whose target carries the contiguous id of raw index 6
C5_Witness ==
    /\ pc = "ready"
    /\ json_category_id_to_contiguous_id[19] = 20
    /\ \E w \in Callers : GotItem(w) /\ 7 \in Range(result[w].labels)

(* C6: after a successful construction every identifier of ids has a       *)
(* record in anns, duplicates in the manifest included, so the record      *)
(* lookup of __getitem__ and get_img_info never fails.                     *)
C6_EveryIdHasRecord ==
    pc = "ready" =>
        /\ \A n \in 1..Len(ids) : ids[n] \in DOMAIN anns
        /\ \A w \in Callers : result[w].op # "KeyError"

\* a manifest naming one identifier twice, read by both accessors
C6_Witness ==
    /\ pc = "ready"
    /\ \E m, n \in 1..Len(ids) : m < n /\ ids[m] = ids[n]
    /\ \E v, w \in Callers : GotItem(v) /\ GotInfo(w)

-----------------------------------------------------------------------------
(* C7.  id is what strip() leaves of line: line is id between two runs of  *)
(* whitespace, and id neither starts nor ends with whitespace.             *)
StrippedTo(line, id) ==
    /\ id = <<>> \/ (id[1] \notin Whitespace /\ id[Len(id)] \notin Whitespace)
    /\ \E a \in 0..Len(line) :
        /\ a + Len(id) <= Len(line)
        /\ SubSeq(line, a + 1, a + Len(id)) = id
        /\ \A n \in 1..a : line[n] \in Whitespace
        /\ \A n \in (a + Len(id) + 1)..Len(line) : line[n] \in Whitespace

\* a <= b in the order of str, by the first differing position
StrLeq(a, b) ==
    \/ Len(a) <= Len(b) /\ SubSeq(b, 1, Len(a)) = a
    \/ \E n \in 1..Min(Len(a), Len(b)) : SubSeq(a, 1, n - 1) = SubSeq(b, 1, n - 1) /\ a[n] < b[n]

(* C7: ids is the stripped manifest lines sorted lexicographically with    *)
(* duplicates kept: non-decreasing, a permutation of the stripped lines,   *)
(* as many as the manifest has lines; __getitem__(i) and id_to_img_map[i]  *)
(* resolve to the i-th identifier of it.                                   *)
C7_IdsSortedStrippedLines ==
    pc = "ready" =>
        /\ Len(ids) = Len(manifest)
        /\ __len__ = Len(manifest)
        /\ \A n \in 1..(Len(ids) - 1) : StrLeq(ids[n], ids[n + 1])
        /\ \E p \in [1..Len(ids) -> 1..Len(manifest)] :
            /\ \A m, n \in 1..Len(ids) : m # n => p[m] # p[n]
            /\ \A n \in 1..Len(ids) : StrippedTo(manifest[p[n]], ids[n])
        /\ DOMAIN id_to_img_map = 0..(Len(ids) - 1)
        /\ \A i \in 0..(Len(ids) - 1) : id_to_img_map[i] = ids[i + 1]
        /\ \A w \in Callers : GotItem(w) => result[w].img_id = ids[result[w].index + 1]

\* the manifest "2", " 1", "12" out of order, read at its last index
C7_Witness ==
    /\ pc = "ready"
    /\ manifest = <<(<<50, 10>>), (<<32, 49, 10>>), (<<49, 50>>)>>
    /\ ids = <<(<<49>>), (<<49, 50>>), (<<50>>)>>
    /\ \E w \in Callers : GotItem(w) /\ result[w].index = 2 /\ result[w].img_id = <<50>>

-----------------------------------------------------------------------------
\* the value the parser gives for an element of leaves only, read off the element
LeavesAsDict(e) ==
    PyDict([tag \in {e.children[n].tag : n \in 1..Len(e.children)} |-> LastChild(e, tag).text])

(* C8: get_img_info(i) returns the size sub-structure of the record that   *)
(* __getitem__(i) uses for the same i, as parsed from the annotation file  *)
(* of the i-th sorted identifier.                                          *)
C8_InfoIsRecordSize ==
    \A w \in Callers :
        GotInfo(w) =>
            /\ result[w].index \in 0..(Len(ids) - 1)
            /\ result[w].info = anns[ids[result[w].index + 1]].size
            /\ result[w].info = LeavesAsDict(LastChild(files[ids[result[w].index + 1]].xml, "size"))
            /\ \A v \in Callers :
                (GotItem(v) /\ result[v].index = result[w].index)
                => result[w].info = anns[result[v].img_id].size

\* both accessors called for index 1 of a split of two different samples
C8_Witness ==
    /\ pc = "ready" /\ Len(ids) >= 2 /\ ids[1] # ids[2]
    /\ anns[ids[1]].size # anns[ids[2]].size
    /\ \E v, w \in Callers :
        GotItem(v) /\ GotInfo(w) /\ result[v].index = 1 /\ result[w].index = 1

-----------------------------------------------------------------------------
\* callers that hold the result of __getitem__ for the same index hold equal results
SameIndexSameResult ==
    \A v, w \in Callers :
        (GotItem(v) /\ GotItem(w) /\ result[v].index = result[w].index)
        => result[v] = result[w]

(* C9: after construction no call of __getitem__ or get_img_info, by any   *)
(* caller in any order, changes ids, anns, the stored boxes and labels or  *)
(* the two id mappings; with no transform, __getitem__(i) returns equal    *)
(* boxes, labels and index whatever was called before.                     *)
C9_AccessorsReadOnly ==
    [][pc = "ready" => (UNCHANGED dataset /\ pc' = "ready" /\ SameIndexSameResult')]_vars

\* two callers hold the clipped target of the same sample, after other calls
C9_Witness ==
    /\ pc = "ready"
    /\ GotItem("w1") /\ GotItem("w2") /\ result["w1"].index = result["w2"].index
    /\ result["w1"].bbox # <<>>
    /\ result["w1"].bbox # anns[result["w1"].img_id].boxes

-----------------------------------------------------------------------------
\* the value of child n of e in the dict its parent gets
ChildValue(e, n) == _recursive_parse_xml_to_dict(e.children[n])[e.children[n].tag]

\* d is the dict of element e: {tag: text} for a leaf, {tag: mapping} otherwise,
\* `object` a list of the values of the children tagged object, in order, any
\* other tag the value of the (last) child of that tag
DictOfElement(e, d) ==
    /\ DOMAIN d = {e.tag}
    /\ IF e.children = <<>>
       THEN d[e.tag] = e.text
       ELSE /\ d[e.tag].k = "dict"
            /\ DOMAIN d[e.tag].v = {e.children[n].tag : n \in 1..Len(e.children)}
            /\ \A tag \in DOMAIN d[e.tag].v :
                LET at == {n \in 1..Len(e.children) : e.children[n].tag = tag}
                    got == d[e.tag].v[tag]
                IN  IF tag = "object"
                    THEN /\ got.k = "list"
                         /\ Len(got.v) = Cardinality(at)
                         /\ \E f \in [1..Len(got.v) -> at] :
                             /\ \A i, j \in 1..Len(got.v) : i < j => f[i] < f[j]
                             /\ \A j \in 1..Len(got.v) : got.v[j] = ChildValue(e, f[j])
                    ELSE \E n \in at : (\A m \in at : m <= n) /\ got = ChildValue(e, n)

(* C10: the parser maps a leaf to {tag: text} and an inner element to      *)
(* {tag: mapping of its children}, where `object` is always a list with    *)
(* one entry per child tagged object, in document order, and every other   *)
(* child tag maps to that child's parsed value.                            *)
C10_ParserAccumulatesObjects ==
    pc = "parsed" =>
        /\ parsed.k = "dict"
        /\ DictOfElement(xml, parsed.v)
        /\ \A n \in 1..Len(xml.children) :
            LET child == xml.children[n]
            IN  /\ DictOfElement(child, _recursive_parse_xml_to_dict(child))
                /\ \A m \in 1..Len(child.children) :
                    DictOfElement(child.children[m],
                                  _recursive_parse_xml_to_dict(child.children[m]))

\* two sibling `object` elements with different content, parsed to a list of two
C10_Witness ==
    /\ pc = "parsed"
    /\ xml.tag = "annotation" /\ Len(xml.children) = 2
    /\ xml.children[1].tag = "object" /\ xml.children[2].tag = "object"
    /\ xml.children[1] # xml.children[2]
    /\ Len(xml.children[1].children) = 2
    /\ parsed.v["annotation"].v["object"].k = "list"
    /\ Len(parsed.v["annotation"].v["object"].v) = 2
    /\ parsed.v["annotation"].v["object"].v[1] # parsed.v["annotation"].v["object"].v[2]

====
